---- MODULE Spec2Model ----
(***************************************************************************)
(* One execution of request() of src/lib/request.ts: the promise executor  *)
(* with its closure (timings, reject wrapper, chunk buffer), the handlers  *)
(* it registers on the transport request, the socket and the response      *)
(* stream, and the two timeout callbacks.  The transport (node's http/net) *)
(* is the environment: it emits the events in the order a connection       *)
(* produces them and runs a registered callback at most once.              *)
(***************************************************************************)
EXTENDS Integers, Sequences, FiniteSets, TLC

VARIABLES
    now,        \* the process clock, in half milliseconds (process.hrtime)
    options,    \* the options object the caller passes to request()
    rt,         \* the closure of the promise executor and what it registered
    env         \* what the transport has emitted so far

vars == <<now, options, rt, env>>

----------------------------------------------------------------------------
(* Bounds of the model *)

MaxTicks == 2       \* the clock advances at most this many half milliseconds

----------------------------------------------------------------------------
(* Constants and inputs *)

DEFAULT_READ_TIMEOUT == 2000
DEFAULT_CONNECTION_TIMEOUT == 1000

\* number | undefined: the empty tuple is undefined, <<n>> is the number n
Undefined == <<>>
Num(n) == <<n>>
IsNumber(a) == a # Undefined
Val(a) == a[1]

\* options.timeout and options.readTimeout: 0 stands for an absent (falsy) value;
\* the two timeouts are both left to their defaults or both configured
\* keys holds the names of the path-related keys the object has ("x" in
\* options); a string is the sequence of its pieces, a query object the
\* sequence of its <<key, value>> entries; a key that is not there has no value
OptionSet ==
    { [ timing |-> t, timeout |-> c[1], readTimeout |-> c[2],
        host |-> "a.com", body |-> b,
        keys |-> {"pathname"}, pathname |-> <<"/foo">>, path |-> <<>>,
        query |-> <<>> ] :
      t \in BOOLEAN, c \in {<<0, 0>>, <<100, 200>>}, b \in {"", "foobar"} }

\* the options whose path-related keys vary: each of pathname, path and query
\* absent or present, the query object empty, with one entry or with two
Pathnames == { <<"/foo">>, <<"/">> }
Paths == { <<"/bar">>, <<"/foo", "?", "b", "=", "2">> }
Queries == { <<>>, << <<"a", 1>> >>, << <<"foo", 7>>, <<"buz", 42>> >> }

Keyed(key, values) == { <<{}, <<>>>> } \cup { <<{key}, v>> : v \in values }

PathOptionSet ==
    { [ timing |-> FALSE, timeout |-> 0, readTimeout |-> 0,
        host |-> "a.com", body |-> b,
        keys |-> pn[1] \cup pa[1] \cup q[1],
        pathname |-> pn[2], path |-> pa[2], query |-> q[2] ] :
      b \in {"", "foobar"}, pn \in Keyed("pathname", Pathnames),
      pa \in Keyed("path", Paths), q \in Keyed("query", Queries) }

\* the content-encoding header of a response; "" is an absent header
Encodings == {"", "gzip", "deflate", "br"}
StatusCodes == {Num(200)}

\* the chunks a response delivers, in order: the UTF-8 encoding of U+044F,
\* D1 8F, followed by 'f' and cut after its first byte; "fo" in one chunk; and
\* "fo" compressed, in two chunks
Payloads ==
    { << <<209>>, <<143, 102>> >>, << <<102, 111>> >>, << <<31, 139, 102>>, <<111>> >> }

TransportErrorMessage == <<"socket hang up">>
StreamErrorOf(source) ==
    IF source = "unzip" THEN <<"incorrect header check">> ELSE <<"aborted">>

\* zlib.createUnzip(), reduced to its header check: a compressed stream is the
\* magic number 1F 8B followed by the stored bytes; the decoder emits the
\* stored bytes of each chunk it is given, fails with 'incorrect header check'
\* on a stream that starts otherwise, and with 'unexpected end of file' when
\* its input ends before the compressed stream does
GzipMagic == <<31, 139>>
HeaderOk(chunk) == Len(chunk) >= 2 /\ SubSeq(chunk, 1, 2) = GzipMagic
inflate(chunk, first) == IF first THEN SubSeq(chunk, 3, Len(chunk)) ELSE chunk
TruncatedMessage == <<"unexpected end of file">>

----------------------------------------------------------------------------
(* Pure functions *)

\* process.hrtime(time): [seconds, nanoseconds] elapsed since time
hrtime(time) ==
    LET d == now - Val(time)
    IN  <<d \div 2000, (d % 2000) * 500000>>

\* Math.round(x / 1000000) for an integer x >= 0 (halves round up)
RoundMillis(x) == (2 * x + 1000000) \div 2000000

getInterval(time) ==
    LET diff == hrtime(time)
    IN  Num(RoundMillis(diff[1] * 1000 * 1000000 + diff[2]))

subtractZero(a, b) ==
    IF IsNumber(a) /\ IsNumber(b) THEN Num(Val(a) - Val(b)) ELSE Num(0)

subtract(a, b) ==
    IF IsNumber(a) /\ IsNumber(b) THEN Num(Val(a) - Val(b)) ELSE Undefined

makeTimingPhases(timings) ==
    [ wait      |-> timings.socket,
      dns       |-> subtract(timings.lookup, timings.socket),
      tcp       |-> subtract(timings.connect, timings.lookup),
      firstByte |-> subtract(timings.response, timings.connect),
      download  |-> subtract(timings.end, timings.response),
      total     |-> timings.end ]

NoTimings ==
    [ lookup |-> Undefined, socket |-> Undefined, connect |-> Undefined,
      response |-> Undefined, end |-> Undefined ]

connectionTimeoutSwapped ==
    IF options.readTimeout # 0 THEN options.readTimeout ELSE DEFAULT_READ_TIMEOUT

\* options.timeout || DEFAULT_CONNECTION_TIMEOUT
connectionTimeout ==
    IF options.timeout # 0 THEN options.timeout ELSE DEFAULT_CONNECTION_TIMEOUT

readTimeoutDefaultOnly == DEFAULT_READ_TIMEOUT

\* options.readTimeout || DEFAULT_READ_TIMEOUT
readTimeout ==
    IF options.readTimeout # 0 THEN options.readTimeout ELSE DEFAULT_READ_TIMEOUT

\* querystring.stringify(obj) of an object of numbers: key=value joined by &
RECURSIVE stringify(_)
stringify(obj) ==
    IF obj = <<>> THEN <<>>
    ELSE <<Head(obj)[1], "=", ToString(Head(obj)[2])>>
           \o (IF Tail(obj) = <<>> THEN <<>> ELSE <<"&">> \o stringify(Tail(obj)))

resolvePathPathnameWins(o) ==
    IF "pathname" \in o.keys
    THEN [ o EXCEPT !.keys = @ \cup {"path"},
                    !.path = IF "query" \in o.keys
                             THEN o.pathname \o <<"?">> \o stringify(o.query)
                             ELSE o.pathname ]
    ELSE o

\* the options as given to the transport: path is derived from pathname and
\* query when the caller gave a pathname and no path
resolvePath(o) ==
    IF "pathname" \in o.keys /\ "path" \notin o.keys
    THEN [ o EXCEPT !.keys = @ \cup {"path"},
                    !.path = IF "query" \in o.keys
                             THEN o.pathname \o <<"?">> \o stringify(o.query)
                             ELSE o.pathname ]
    ELSE o

\* the template literals of the two timeout faults, piece by piece
ConnectMessage ==
    <<"Could not connect within ", ToString(connectionTimeout), " ms to ", options.host>>

ReadMessage ==
    <<"Failed to read data within ", ToString(readTimeout), " ms from ", options.host>>

Error(message) == [ kind |-> "Error", message |-> message ]

\* Buffer.concat(list, totalLength): the buffers copied one after another into
\* a zero-filled buffer of totalLength bytes
RECURSIVE Flatten(_)
Flatten(list) ==
    IF list = <<>> THEN <<>> ELSE Head(list) \o Flatten(Tail(list))

BufferConcat(list, totalLength) ==
    LET all == Flatten(list)
    IN  [ i \in 1..totalLength |-> IF i <= Len(all) THEN all[i] ELSE 0 ]

\* buf.toString("utf8") for one- and two-byte sequences: a lead byte C2..DF
\* followed by a continuation byte 80..BF is one code point, a byte below 80
\* is itself, anything else decodes to U+FFFD
RECURSIVE Utf8ToString(_)
Utf8ToString(bytes) ==
    IF bytes = <<>> THEN <<>>
    ELSE LET b == Head(bytes)
         IN  IF b < 128 THEN <<b>> \o Utf8ToString(Tail(bytes))
             ELSE IF /\ b >= 194 /\ b <= 223 /\ Len(bytes) >= 2
                     /\ bytes[2] >= 128 /\ bytes[2] <= 191
                  THEN <<(b - 192) * 64 + (bytes[2] - 128)>>
                           \o Utf8ToString(Tail(Tail(bytes)))
                  ELSE <<65533>> \o Utf8ToString(Tail(bytes))

----------------------------------------------------------------------------
(* The promise and the closure of its executor *)

\* the state right before request() is called
NotStarted ==
    [ started         |-> FALSE,
      startTime       |-> Undefined,
      timings         |-> NoTimings,
      promise         |-> [ state |-> "none", value |-> [ kind |-> "none" ] ],
      socketOnce      |-> FALSE,    \* requestObject.once("socket") is pending
      lookupOnce      |-> FALSE,    \* socket.once("lookup") is pending
      connectOnce     |-> FALSE,    \* socket.once("connect") is pending
      socketTimeouts  |-> <<>>,     \* the durations given to socket.setTimeout
      connTimeoutCbs  |-> 0,        \* connection-timeout callbacks not yet run
      requestTimeouts |-> <<>>,     \* the durations given to requestObject.setTimeout
      readTimeoutCbs  |-> 0,        \* read-timeout callbacks not yet run
      destroyed       |-> 0,        \* calls of destroy() on the request's socket
      written         |-> <<>>,     \* the payloads given to requestObject.write
      ended           |-> 0,        \* calls of requestObject.end()
      response        |-> [ statusCode |-> Undefined, encoding |-> "" ],
      unzip           |-> FALSE,    \* bodyStream is response.pipe(zlib.createUnzip())
      chunks          |-> <<>>,
      bufferLength    |-> 0,
      responses       |-> 0,        \* ServiceClientResponse objects constructed
      errors          |-> 0,        \* ErrorWithTimings objects constructed
      requestOptions  |-> [ keys |-> {} ],  \* the options given to httpRequestFn
      calls           |-> <<>> ]    \* what the handler that ran last called, in order

Call(s, name) == [ s EXCEPT !.calls = Append(@, name) ]

\* a handler starts with an empty list of calls
Enter(s) == [ s EXCEPT !.calls = <<>> ]

\* the resolve function of the promise: settling a settled promise does nothing
resolve(s, value) ==
    [ Call(s, "resolve") EXCEPT
        !.promise = IF @.state = "pending"
                    THEN [ state |-> "fulfilled", value |-> value ]
                    ELSE @ ]

originalRejectAlways(s, reason) ==
    [ Call(s, "reject") EXCEPT
        !.promise = [ state |-> "rejected", value |-> reason ] ]

\* the reject function of the promise
originalReject(s, reason) ==
    [ Call(s, "reject") EXCEPT
        !.promise = IF @.state = "pending"
                    THEN [ state |-> "rejected", value |-> reason ]
                    ELSE @ ]

\* new ErrorWithTimings(error, timings, phases): the object keeps the closure's
\* timings object itself (timings |-> "closure"), and the phases as given
ErrorWithTimings(originalError, phases) ==
    [ kind |-> "ErrorWithTimings", message |-> originalError.message,
      timings |-> "closure", timingPhases |-> phases ]

rejectPlain(s, error) == originalReject(s, error)

rejectStalePhases(s, error) ==
    IF options.timing
    THEN originalReject(
             [ Call(s, "new ErrorWithTimings") EXCEPT !.errors = @ + 1 ],
             ErrorWithTimings(error, makeTimingPhases(NoTimings)))
    ELSE originalReject(s, error)

\* reject: the wrapper installed when options.timing is set, else originalReject
reject(s, error) ==
    IF options.timing
    THEN originalReject(
             [ Call(s, "new ErrorWithTimings") EXCEPT !.errors = @ + 1 ],
             ErrorWithTimings(error, makeTimingPhases(s.timings)))
    ELSE originalReject(s, error)

destroy(s) == [ Call(s, "socket.destroy") EXCEPT !.destroyed = @ + 1 ]

\* what the holder of a settled promise's value reads from it: the timings
\* field is the closure's object, so it shows the closure's current content
Published(s) ==
    LET v == s.promise.value
    IN  IF v.kind = "ErrorWithTimings"
        THEN [ v EXCEPT !.timings = s.timings ]
        ELSE IF v.kind = "ServiceClientResponse" /\ v.timed
             THEN [ v EXCEPT !.timings = s.timings ]
             ELSE v

Settled(s) == s.promise.state \in {"fulfilled", "rejected"}

----------------------------------------------------------------------------
(* The handlers *)

requestEndsWithBodyOnly(s) ==
    LET s1 == [ Enter(s) EXCEPT
                  !.started = TRUE,
                  !.requestOptions = resolvePath(options),
                  !.startTime = IF options.timing THEN Num(now) ELSE Undefined,
                  !.timings = NoTimings,
                  !.promise = [ state |-> "pending", value |-> [ kind |-> "none" ] ],
                  !.socketOnce = TRUE ]
    IN  IF options.body # ""
        THEN [ Call(Call(s1, "requestObject.end"), "requestObject.write") EXCEPT
                 !.ended = @ + 1,
                 !.written = Append(@, options.body) ]
        ELSE s1

\* request(): the body of the promise executor
request(s) ==
    LET s1 == [ Enter(s) EXCEPT
                  !.started = TRUE,
                  !.requestOptions = resolvePath(options),
                  !.startTime = IF options.timing THEN Num(now) ELSE Undefined,
                  !.timings = NoTimings,
                  !.promise = [ state |-> "pending", value |-> [ kind |-> "none" ] ],
                  !.socketOnce = TRUE ]
        s2 == IF options.body # ""
              THEN [ Call(s1, "requestObject.write") EXCEPT
                       !.written = Append(@, options.body) ]
              ELSE s1
    IN  [ Call(s2, "requestObject.end") EXCEPT !.ended = @ + 1 ]

setReadTimeoutUnarmed(s) == s

\* setReadTimeout(): requestObject.setTimeout(readTimeout, callback)
setReadTimeout(s) ==
    [ Call(s, "requestObject.setTimeout") EXCEPT
        !.requestTimeouts = Append(@, readTimeout),
        !.readTimeoutCbs = @ + 1 ]

onReadTimeoutRejectFirst(s) ==
    destroy(reject([ Enter(s) EXCEPT !.readTimeoutCbs = @ - 1 ], Error(ReadMessage)))

\* the callback given to requestObject.setTimeout
onReadTimeout(s) ==
    reject(destroy([ Enter(s) EXCEPT !.readTimeoutCbs = @ - 1 ]), Error(ReadMessage))

onConnectionTimeoutNoDestroy(s) ==
    reject([ Enter(s) EXCEPT !.connTimeoutCbs = @ - 1 ], Error(ConnectMessage))

\* the callback given to socket.setTimeout
onConnectionTimeout(s) ==
    reject(destroy([ Enter(s) EXCEPT !.connTimeoutCbs = @ - 1 ]), Error(ConnectMessage))

onLookup(s) ==
    [ Enter(s) EXCEPT !.lookupOnce = FALSE,
                      !.timings.lookup = getInterval(s.startTime) ]

onConnect(s) ==
    setReadTimeout(
        [ Enter(s) EXCEPT
            !.connectOnce = FALSE,
            !.timings.connect = IF options.timing THEN getInterval(s.startTime) ELSE @ ])

onSocketArmsReadTimerAtOnce(s, connecting) ==
    LET s1 == [ Enter(s) EXCEPT
                  !.socketOnce = FALSE,
                  !.timings.socket =
                      IF options.timing THEN getInterval(s.startTime) ELSE @ ]
    IN  IF connecting
        THEN setReadTimeout(
                 [ Call(s1, "socket.setTimeout") EXCEPT
                     !.socketTimeouts = Append(@, connectionTimeout),
                     !.connTimeoutCbs = @ + 1,
                     !.lookupOnce = options.timing,
                     !.connectOnce = TRUE ])
        ELSE setReadTimeout(
                 [ s1 EXCEPT
                     !.timings.lookup = IF options.timing THEN s1.timings.socket ELSE @,
                     !.timings.connect = IF options.timing THEN s1.timings.socket ELSE @ ])

onSocketNoCollapse(s, connecting) ==
    LET s1 == [ Enter(s) EXCEPT
                  !.socketOnce = FALSE,
                  !.timings.socket =
                      IF options.timing THEN getInterval(s.startTime) ELSE @ ]
    IN  IF connecting
        THEN [ Call(s1, "socket.setTimeout") EXCEPT
                 !.socketTimeouts = Append(@, connectionTimeout),
                 !.connTimeoutCbs = @ + 1,
                 !.lookupOnce = options.timing,
                 !.connectOnce = TRUE ]
        ELSE setReadTimeout(s1)

\* requestObject.once("socket", socket => ...)
onSocket(s, connecting) ==
    LET s1 == [ Enter(s) EXCEPT
                  !.socketOnce = FALSE,
                  !.timings.socket =
                      IF options.timing THEN getInterval(s.startTime) ELSE @ ]
    IN  IF connecting
        THEN [ Call(s1, "socket.setTimeout") EXCEPT
                 !.socketTimeouts = Append(@, connectionTimeout),
                 !.connTimeoutCbs = @ + 1,
                 !.lookupOnce = options.timing,
                 !.connectOnce = TRUE ]
        ELSE setReadTimeout(
                 [ s1 EXCEPT
                     !.timings.lookup = IF options.timing THEN s1.timings.socket ELSE @,
                     !.timings.connect = IF options.timing THEN s1.timings.socket ELSE @ ])

onResponseNoUnzip(s, response) ==
    LET t == s.timings
        t1 == [ t EXCEPT !.lookup = IF @ = Undefined THEN t.socket ELSE @ ]
        t2 == [ t1 EXCEPT !.connect = IF @ = Undefined THEN t1.socket ELSE @ ]
        t3 == [ t2 EXCEPT !.response = getInterval(s.startTime) ]
    IN  [ Enter(s) EXCEPT
            !.timings = IF options.timing THEN t3 ELSE @,
            !.response = response,
            !.unzip = FALSE,
            !.chunks = <<>>,
            !.bufferLength = 0 ]

onResponseBackfillsLate(s, response) ==
    LET t == s.timings
        t1 == [ t EXCEPT !.response = getInterval(s.startTime) ]
        t2 == [ t1 EXCEPT !.lookup = IF @ = Undefined THEN t1.response ELSE @ ]
        t3 == [ t2 EXCEPT !.connect = IF @ = Undefined THEN t2.response ELSE @ ]
    IN  [ Enter(s) EXCEPT
            !.timings = IF options.timing THEN t3 ELSE @,
            !.response = response,
            !.unzip = response.encoding \in {"gzip", "deflate"},
            !.chunks = <<>>,
            !.bufferLength = 0 ]

\* requestObject.on("response", response => ...), up to the listeners it adds
onResponse(s, response) ==
    LET t == s.timings
        t1 == [ t EXCEPT !.lookup = IF @ = Undefined THEN t.socket ELSE @ ]
        t2 == [ t1 EXCEPT !.connect = IF @ = Undefined THEN t1.socket ELSE @ ]
        t3 == [ t2 EXCEPT !.response = getInterval(s.startTime) ]
    IN  [ Enter(s) EXCEPT
            !.timings = IF options.timing THEN t3 ELSE @,
            !.response = response,
            !.unzip = response.encoding \in {"gzip", "deflate"},
            !.chunks = <<>>,
            !.bufferLength = 0 ]

\* bodyStream.on("data", data => ...)
onData(s, data) ==
    [ Enter(s) EXCEPT !.bufferLength = @ + Len(data), !.chunks = Append(@, data) ]

\* new ServiceClientResponse(statusCode || 0, headers, body, options)
ServiceClientResponse(statusCode, headers, body, requestOptions) ==
    [ kind |-> "ServiceClientResponse",
      statusCode |-> IF IsNumber(statusCode) /\ Val(statusCode) # 0
                     THEN Val(statusCode) ELSE 0,
      headers |-> headers, body |-> body, request |-> requestOptions,
      timed |-> FALSE, timings |-> "none", timingPhases |-> "none" ]

RECURSIVE DecodeEach(_)
DecodeEach(list) ==
    IF list = <<>> THEN <<>>
    ELSE Utf8ToString(Head(list)) \o DecodeEach(Tail(list))

onEndDecodesPerChunk(s) ==
    LET body == DecodeEach(s.chunks)
        s1 == [ Call(Enter(s), "new ServiceClientResponse") EXCEPT
                  !.chunks = <<>>, !.bufferLength = 0, !.responses = @ + 1 ]
        scr == ServiceClientResponse(s.response.statusCode, s.response.encoding,
                                     body, s.requestOptions)
        s2 == [ s1 EXCEPT !.timings.end = getInterval(s.startTime) ]
    IN  IF options.timing
        THEN resolve(s2, [ scr EXCEPT !.timed = TRUE, !.timings = "closure",
                                      !.timingPhases = makeTimingPhases(s2.timings) ])
        ELSE resolve(s1, scr)

onEndPhasesFirst(s) ==
    LET body == Utf8ToString(BufferConcat(s.chunks, s.bufferLength))
        s1 == [ Call(Enter(s), "new ServiceClientResponse") EXCEPT
                  !.chunks = <<>>, !.bufferLength = 0, !.responses = @ + 1 ]
        scr == ServiceClientResponse(s.response.statusCode, s.response.encoding,
                                     body, s.requestOptions)
        s2 == [ s1 EXCEPT !.timings.end = getInterval(s.startTime) ]
    IN  IF options.timing
        THEN resolve(s2, [ scr EXCEPT !.timed = TRUE, !.timings = "closure",
                                      !.timingPhases = makeTimingPhases(s1.timings) ])
        ELSE resolve(s1, scr)

\* bodyStream.on("end", () => ...)
onEnd(s) ==
    LET body == Utf8ToString(BufferConcat(s.chunks, s.bufferLength))
        s1 == [ Call(Enter(s), "new ServiceClientResponse") EXCEPT
                  !.chunks = <<>>, !.bufferLength = 0, !.responses = @ + 1 ]
        scr == ServiceClientResponse(s.response.statusCode, s.response.encoding,
                                     body, s.requestOptions)
        s2 == [ s1 EXCEPT !.timings.end = getInterval(s.startTime) ]
    IN  IF options.timing
        THEN resolve(s2, [ scr EXCEPT !.timed = TRUE, !.timings = "closure",
                                      !.timingPhases = makeTimingPhases(s2.timings) ])
        ELSE resolve(s1, scr)

onStreamErrorDropped(s, error) == Enter(s)

\* response.on("error", reject) and bodyStream.on("error", reject)
onStreamError(s, error) == reject(Enter(s), error)

\* the streams of the response whose error event has reject as a listener:
\* bodyStream always, and the response as well when it is piped into the decoder
ErrorListeners(s) == IF s.unzip THEN {"response", "unzip"} ELSE {"response"}

onErrorUnheard(s, error) == Enter(s)

\* requestObject.on("error", reject)
onError(s, error) == reject(Enter(s), error)

----------------------------------------------------------------------------
(* The state machine *)

\* the transport before it has emitted anything
NoEvents ==
    [ socket |-> "none", reused |-> FALSE, response |-> FALSE,
      ended |-> FALSE, body |-> <<>>, payload |-> <<>>,
      emitted |-> <<>>, error |-> FALSE, streamErrors |-> {} ]

Init ==
    /\ now = 0
    /\ options \in OptionSet
    /\ rt = NotStarted
    /\ env = NoEvents

\* time passes; the clock is modelled only when the execution reads it
Tick ==
    /\ options.timing
    /\ now < MaxTicks
    /\ now' = now + 1
    /\ UNCHANGED <<options, rt, env>>

\* the caller calls request(options)
Request ==
    /\ ~rt.started
    /\ rt' = request(rt)
    /\ UNCHANGED <<now, options, env>>

\* the transport assigns a socket to the request: new (connecting) or reused
Socket ==
    /\ rt.socketOnce
    /\ env.socket = "none"
    /\ ~env.error
    /\ \E connecting \in BOOLEAN :
         /\ rt' = onSocket(rt, connecting)
         /\ env' = [ env EXCEPT
                       !.socket = IF connecting THEN "connecting" ELSE "usable",
                       !.reused = ~connecting ]
    /\ UNCHANGED <<now, options>>

\* the resolver answers; the socket emits lookup even when it was destroyed
\* in the meantime
Lookup ==
    /\ rt.lookupOnce
    /\ env.socket = "connecting"
    /\ rt' = onLookup(rt)
    /\ UNCHANGED <<now, options, env>>

\* the connection is established
Connect ==
    /\ rt.connectOnce
    /\ env.socket = "connecting"
    /\ rt.destroyed = 0
    /\ ~env.error
    /\ rt' = onConnect(rt)
    /\ env' = [ env EXCEPT !.socket = "usable" ]
    /\ UNCHANGED <<now, options>>

\* the response headers arrive on a usable socket
Response ==
    /\ rt.started
    /\ env.socket = "usable"
    /\ ~env.response
    /\ rt.destroyed = 0
    /\ ~env.error
    /\ \E statusCode \in StatusCodes, encoding \in Encodings :
         rt' = onResponse(rt, [ statusCode |-> statusCode, encoding |-> encoding ])
    /\ \E payload \in Payloads :
         env' = [ env EXCEPT !.response = TRUE, !.body = payload,
                             !.payload = payload ]
    /\ UNCHANGED <<now, options>>

\* the response was cut short: its socket was closed before the last chunk
CutShort == env.payload # <<>> /\ (rt.destroyed > 0 \/ env.error)

\* the next chunk of the response is its first one
First == env.payload = env.body

\* the next chunk of the response arrives and the body stream emits its data:
\* the chunk itself, or what the decoder the response is piped into makes of it
Data ==
    /\ env.response
    /\ ~env.ended
    /\ env.payload # <<>>
    /\ rt.destroyed = 0
    /\ ~env.error
    /\ rt.unzip => /\ "unzip" \notin env.streamErrors
                   /\ First => HeaderOk(Head(env.payload))
    /\ LET data == IF rt.unzip THEN inflate(Head(env.payload), First)
                    ELSE Head(env.payload)
       IN  /\ rt' = onData(rt, data)
           /\ env' = [ env EXCEPT !.payload = Tail(@),
                                   !.emitted = Append(@, data) ]
    /\ UNCHANGED <<now, options>>

\* the body stream ends: after its last chunk, or, for a response that is not
\* piped into a decoder, cut short when its socket was closed
End ==
    /\ env.response
    /\ ~env.ended
    /\ IF rt.unzip
       THEN env.payload = <<>> /\ "unzip" \notin env.streamErrors
       ELSE env.payload = <<>> \/ rt.destroyed > 0 \/ env.error
    /\ rt' = onEnd(rt)
    /\ env' = [ env EXCEPT !.ended = TRUE ]
    /\ UNCHANGED <<now, options>>

\* the message of the error the stream source signals in the current state
Signalled(source) ==
    IF source = "unzip" /\ CutShort THEN TruncatedMessage ELSE StreamErrorOf(source)

\* the response emits an error, or the decoder it is piped into does: on a
\* first chunk that fails the header check, or on a response cut short; each
\* of the two streams fails at most once
StreamError ==
    /\ env.response
    /\ ~env.ended
    /\ \E source \in ErrorListeners(rt) \ env.streamErrors :
         /\ source = "unzip" =>
              \/ CutShort
              \/ /\ First
                 /\ ~HeaderOk(Head(env.payload))
                 /\ rt.destroyed = 0
                 /\ ~env.error
         /\ rt' = onStreamError(rt, Error(Signalled(source)))
         /\ env' = [ env EXCEPT !.streamErrors = @ \cup {source} ]
    /\ UNCHANGED <<now, options>>

\* the transport request emits its error event; the transport closes the socket
\* of a failed request, which then connects, receives and times out no more
TransportError ==
    /\ rt.started
    /\ ~env.error
    /\ rt' = onError(rt, Error(TransportErrorMessage))
    /\ env' = [ env EXCEPT !.error = TRUE ]
    /\ UNCHANGED <<now, options>>

\* the socket's timeout event runs the callback given to socket.setTimeout
ConnectionTimeout ==
    /\ rt.connTimeoutCbs > 0
    /\ ~env.error
    /\ rt' = onConnectionTimeout(rt)
    /\ UNCHANGED <<now, options, env>>

\* the request's timeout event runs the callback given to requestObject.setTimeout
ReadTimeout ==
    /\ rt.readTimeoutCbs > 0
    /\ ~env.error
    /\ rt' = onReadTimeout(rt)
    /\ UNCHANGED <<now, options, env>>

Next ==
    \/ Tick
    \/ Request
    \/ Socket
    \/ Lookup
    \/ Connect
    \/ Response
    \/ Data
    \/ End
    \/ StreamError
    \/ TransportError
    \/ ConnectionTimeout
    \/ ReadTimeout

Spec == Init /\ [][Next]_vars

\* the transport assigns a socket to a request that waits for one, and a
\* timeout whose callback is registered fires unless the socket is closed
\* first; whether the peer ever connects, answers or ends is left open
Fairness ==
    /\ WF_vars(Socket)
    /\ WF_vars(ConnectionTimeout)
    /\ WF_vars(ReadTimeout)

FairSpec == Init /\ [][Next]_vars /\ Fairness

\* request() called with each of the options of PathOptionSet: the path it
\* gives to the transport
PathInit ==
    /\ now = 0
    /\ options \in PathOptionSet
    /\ rt = NotStarted
    /\ env = NoEvents

PathSpec == PathInit /\ [][Request]_vars

----------------------------------------------------------------------------
(* The revision with the dropRequestAfter timer (src/unnamed/part_000) *)

\* the options of that revision: options.timeout is the transport's own socket
\* timeout, dropRequestAfter the time after which the request is dropped; 0
\* stands for an absent value
DropOptionSet ==
    { [ timing |-> t, timeout |-> c, dropRequestAfter |-> d,
        host |-> "a.com", body |-> b,
        keys |-> {"pathname", "query"}, pathname |-> <<"/foo">>, path |-> <<>>,
        query |-> q ] :
      t \in BOOLEAN, c \in {0, 100}, d \in {0, 50}, b \in {"", "foobar"},
      q \in { <<>>, << <<"a", 1>> >> } }

\* the path of that revision: the '?' is left out when the serialized query
\* is empty
dropResolvePath(o) ==
    IF "pathname" \in o.keys /\ "path" \notin o.keys
    THEN [ o EXCEPT !.keys = @ \cup {"path"},
                    !.path = IF "query" \in o.keys
                             THEN o.pathname \o
                                    (IF stringify(o.query) # <<>>
                                     THEN <<"?">> \o stringify(o.query)
                                     ELSE <<>>)
                             ELSE o.pathname ]
    ELSE o

\* the state right before request() of that revision is called
DropNotStarted ==
    [ started         |-> FALSE,
      hasRequestEnded |-> FALSE,
      startTime       |-> Undefined,
      timings         |-> NoTimings,
      promise         |-> [ state |-> "none", value |-> [ kind |-> "none" ] ],
      socketOnce      |-> FALSE,    \* requestObject.once("socket") is pending
      lookupOnce      |-> FALSE,    \* socket.once("lookup", onLookUp) is pending
      connectOnce     |-> FALSE,    \* socket.once("connect", onConnect) is pending
      errorOnce       |-> FALSE,    \* requestObject.once("error") is pending
      dropDurations   |-> <<>>,     \* the durations given to setTimeout
      dropTimers      |-> 0,        \* setTimeout callbacks not yet run
      aborted         |-> 0,        \* calls of requestObject.abort()
      written         |-> <<>>,
      ended           |-> 0,
      response        |-> [ statusCode |-> Undefined, encoding |-> "" ],
      unzip           |-> FALSE,
      chunks          |-> <<>>,
      responses       |-> 0,
      errors          |-> 0,
      requestOptions  |-> [ keys |-> {} ],
      calls           |-> <<>> ]

abort(s) == [ Call(s, "requestObject.abort") EXCEPT !.aborted = @ + 1 ]

\* request() of that revision: the body of the promise executor
dropRequest(s) ==
    LET s1 == [ Enter(s) EXCEPT
                  !.started = TRUE,
                  !.hasRequestEnded = FALSE,
                  !.requestOptions = dropResolvePath(options),
                  !.startTime = IF options.timing THEN Num(now) ELSE Undefined,
                  !.timings = NoTimings,
                  !.promise = [ state |-> "pending", value |-> [ kind |-> "none" ] ],
                  !.socketOnce = options.timing ]
        s2 == IF options.dropRequestAfter # 0
              THEN [ Call(s1, "setTimeout") EXCEPT
                       !.dropDurations = Append(@, options.dropRequestAfter),
                       !.dropTimers = @ + 1 ]
              ELSE s1
        s3 == IF options.body # ""
              THEN [ Call(s2, "requestObject.write") EXCEPT
                       !.written = Append(@, options.body) ]
              ELSE s2
    IN  [ Call(s3, "requestObject.end") EXCEPT !.ended = @ + 1 ]

\* the response callback given to httpRequestFn, up to the listeners it adds
dropOnResponse(s, response) ==
    LET t == s.timings
        t1 == [ t EXCEPT !.lookup = IF @ = Undefined THEN t.socket ELSE @ ]
        t2 == [ t1 EXCEPT !.connect = IF @ = Undefined THEN t1.socket ELSE @ ]
        t3 == [ t2 EXCEPT !.response = getInterval(s.startTime) ]
    IN  [ Enter(s) EXCEPT
            !.timings = IF options.timing THEN t3 ELSE @,
            !.response = response,
            !.unzip = response.encoding \in {"gzip", "deflate"},
            !.chunks = <<>> ]

\* bodyStream.on("data", chunk => ...)
dropOnData(s, chunk) == [ Enter(s) EXCEPT !.chunks = Append(@, chunk) ]

\* bodyStream.on("end", () => ...)
dropOnEnd(s) ==
    LET body == Utf8ToString(Flatten(s.chunks))
        s1 == [ Call(Enter(s), "new ServiceClientResponse") EXCEPT
                  !.hasRequestEnded = TRUE, !.responses = @ + 1 ]
        scr == ServiceClientResponse(s.response.statusCode, s.response.encoding,
                                     body, s.requestOptions)
        s2 == [ s1 EXCEPT !.timings.end = getInterval(s.startTime) ]
    IN  IF options.timing
        THEN resolve(s2, [ scr EXCEPT !.timed = TRUE, !.timings = "closure",
                                      !.timingPhases = makeTimingPhases(s2.timings) ])
        ELSE resolve(s1, scr)

\* requestObject.once("socket", socket => ...), registered with timing only
dropOnSocket(s, connecting) ==
    LET s1 == [ Enter(s) EXCEPT !.socketOnce = FALSE,
                                !.timings.socket = getInterval(s.startTime) ]
    IN  IF connecting
        THEN [ s1 EXCEPT !.lookupOnce = TRUE, !.connectOnce = TRUE,
                         !.errorOnce = TRUE ]
        ELSE [ s1 EXCEPT !.timings.lookup = s1.timings.socket,
                         !.timings.connect = s1.timings.socket ]

onLookUp(s) ==
    [ Enter(s) EXCEPT !.lookupOnce = FALSE,
                      !.timings.lookup = getInterval(s.startTime) ]

dropOnConnect(s) ==
    [ Enter(s) EXCEPT !.connectOnce = FALSE,
                      !.timings.connect = getInterval(s.startTime) ]

\* the error listeners of the transport request, in the order they were
\* added: reject, then the one that removes onLookUp and onConnect
dropOnError(s, error) ==
    LET s1 == reject(Enter(s), error)
    IN  IF s1.errorOnce
        THEN [ s1 EXCEPT !.errorOnce = FALSE, !.lookupOnce = FALSE,
                         !.connectOnce = FALSE ]
        ELSE s1

\* requestObject.on("timeout", () => ...)
dropOnTimeout(s) == reject(abort(Enter(s)), Error(<<"socket timeout">>))

\* the callback given to setTimeout(..., options.dropRequestAfter)
dropRequestAfter(s) ==
    LET s1 == [ Enter(s) EXCEPT !.dropTimers = @ - 1 ]
    IN  IF ~s1.hasRequestEnded
        THEN reject(abort(s1), Error(<<"request timeout">>))
        ELSE s1

DropInit ==
    /\ now = 0
    /\ options \in DropOptionSet
    /\ rt = DropNotStarted
    /\ env = NoEvents

DropRequest ==
    /\ ~rt.started
    /\ rt' = dropRequest(rt)
    /\ UNCHANGED <<now, options, env>>

\* the transport assigns a socket; the closure listens with timing only
DropSocket ==
    /\ rt.started
    /\ env.socket = "none"
    /\ rt.aborted = 0
    /\ ~env.error
    /\ \E connecting \in BOOLEAN :
         /\ rt' = IF rt.socketOnce THEN dropOnSocket(rt, connecting) ELSE rt
         /\ env' = [ env EXCEPT
                       !.socket = IF connecting THEN "connecting" ELSE "usable",
                       !.reused = ~connecting ]
    /\ UNCHANGED <<now, options>>

DropLookup ==
    /\ rt.lookupOnce
    /\ env.socket = "connecting"
    /\ rt' = onLookUp(rt)
    /\ UNCHANGED <<now, options, env>>

DropConnect ==
    /\ env.socket = "connecting"
    /\ rt.aborted = 0
    /\ ~env.error
    /\ rt' = IF rt.connectOnce THEN dropOnConnect(rt) ELSE rt
    /\ env' = [ env EXCEPT !.socket = "usable" ]
    /\ UNCHANGED <<now, options>>

DropResponse ==
    /\ rt.started
    /\ env.socket = "usable"
    /\ ~env.response
    /\ rt.aborted = 0
    /\ ~env.error
    /\ \E statusCode \in StatusCodes, encoding \in {"", "gzip"} :
         rt' = dropOnResponse(rt, [ statusCode |-> statusCode,
                                    encoding |-> encoding ])
    /\ \E payload \in Payloads :
         env' = [ env EXCEPT !.response = TRUE, !.body = payload,
                             !.payload = payload ]
    /\ UNCHANGED <<now, options>>

\* the response was cut short: the request was aborted or its socket closed
DropCutShort == env.payload # <<>> /\ (rt.aborted > 0 \/ env.error)

DropData ==
    /\ env.response
    /\ ~env.ended
    /\ env.payload # <<>>
    /\ rt.aborted = 0
    /\ ~env.error
    /\ rt.unzip => /\ "unzip" \notin env.streamErrors
                   /\ First => HeaderOk(Head(env.payload))
    /\ LET data == IF rt.unzip THEN inflate(Head(env.payload), First)
                    ELSE Head(env.payload)
       IN  /\ rt' = dropOnData(rt, data)
           /\ env' = [ env EXCEPT !.payload = Tail(@),
                                   !.emitted = Append(@, data) ]
    /\ UNCHANGED <<now, options>>

DropEnd ==
    /\ env.response
    /\ ~env.ended
    /\ IF rt.unzip
       THEN env.payload = <<>> /\ "unzip" \notin env.streamErrors
       ELSE env.payload = <<>> \/ rt.aborted > 0 \/ env.error
    /\ rt' = dropOnEnd(rt)
    /\ env' = [ env EXCEPT !.ended = TRUE ]
    /\ UNCHANGED <<now, options>>

DropStreamError ==
    /\ env.response
    /\ ~env.ended
    /\ \E source \in ErrorListeners(rt) \ env.streamErrors :
         /\ source = "unzip" =>
              \/ DropCutShort
              \/ /\ First
                 /\ ~HeaderOk(Head(env.payload))
                 /\ rt.aborted = 0
                 /\ ~env.error
         /\ rt' = onStreamError(rt,
                     Error(IF source = "unzip" /\ DropCutShort
                           THEN TruncatedMessage ELSE StreamErrorOf(source)))
         /\ env' = [ env EXCEPT !.streamErrors = @ \cup {source} ]
    /\ UNCHANGED <<now, options>>

\* the transport request emits its error event, also for an aborted request
DropTransportError ==
    /\ rt.started
    /\ ~env.error
    /\ rt' = dropOnError(rt, Error(TransportErrorMessage))
    /\ env' = [ env EXCEPT !.error = TRUE ]
    /\ UNCHANGED <<now, options>>

\* the transport request emits timeout: its socket was idle for
\* options.timeout; an aborted request has no socket any more
DropSocketTimeout ==
    /\ options.timeout # 0
    /\ env.socket # "none"
    /\ rt.aborted = 0
    /\ ~env.error
    /\ rt' = dropOnTimeout(rt)
    /\ UNCHANGED <<now, options, env>>

\* the timer set by setTimeout fires, whatever has become of the request
DropTimer ==
    /\ rt.dropTimers > 0
    /\ rt' = dropRequestAfter(rt)
    /\ UNCHANGED <<now, options, env>>

DropNext ==
    \/ Tick
    \/ DropRequest
    \/ DropSocket
    \/ DropLookup
    \/ DropConnect
    \/ DropResponse
    \/ DropData
    \/ DropEnd
    \/ DropStreamError
    \/ DropTransportError
    \/ DropSocketTimeout
    \/ DropTimer

DropSpec == DropInit /\ [][DropNext]_vars

----------------------------------------------------------------------------
(* Properties *)

Called(s, name) == \E i \in 1..Len(s.calls) : s.calls[i] = name

Rejected(s) == s.promise.state = "rejected"
Fulfilled(s) == s.promise.state = "fulfilled"

\* the duration a timeout fault names: the configured one, else the default
Configured(value, default) == IF value # 0 THEN value ELSE default

ExpectedConnectMessage ==
    <<"Could not connect within ", ToString(Configured(options.timeout, 1000)),
      " ms to ", options.host>>

ExpectedReadMessage ==
    <<"Failed to read data within ", ToString(Configured(options.readTimeout, 2000)),
      " ms from ", options.host>>

TimeoutFault(s) ==
    /\ Rejected(s)
    /\ s.promise.value.message[1]
         \in {"Could not connect within ", "Failed to read data within "}

\* C1: the caller observes at most one outcome: once the promise is settled,
\* no event settles it again, neither as the other outcome nor with another
\* value.
C1_SingleOutcome ==
    [][Settled(rt) => rt'.promise = rt.promise]_vars

\* a failure is signalled after the success was delivered
C1_Witness ==
    /\ Fulfilled(rt)
    /\ Called(rt, "reject")

\* C2: once the execution has resolved, the Timings and TimingPhases the
\* delivered result carries keep the values they had at resolution time,
\* whatever events arrive afterwards.
C2_PublishedResultFrozen ==
    [][Settled(rt) => Published(rt)' = Published(rt)]_vars

\* C3: when the connection timer fires on a connecting socket before connect,
\* the request fails with 'Could not connect within <connectionTimeout> ms to
\* <host>', the connection timer was armed exactly once with that duration,
\* and the socket is destroyed exactly once.
C3_ConnectionTimeout ==
    [][(rt'.connTimeoutCbs < rt.connTimeoutCbs /\ env.socket = "connecting")
         => /\ Rejected(rt')
            /\ rt'.promise.value.message = ExpectedConnectMessage
            /\ rt'.socketTimeouts = <<Configured(options.timeout, 1000)>>
            /\ rt'.destroyed = 1]_vars

C3_Witness ==
    /\ env.socket = "connecting"
    /\ rt.connTimeoutCbs = 0
    /\ Rejected(rt)
    /\ rt.promise.value.message = ExpectedConnectMessage
    /\ rt.destroyed = 1

\* C4: when the read timer fires on a usable socket before the execution has
\* resolved, awaiting the response or receiving the body, the request fails
\* with 'Failed to read data within <readTimeout> ms from <host>' and the
\* socket is destroyed exactly once.
C4_ReadTimeout ==
    [][(rt'.readTimeoutCbs < rt.readTimeoutCbs /\ ~Settled(rt))
         => /\ env.socket = "usable"
            /\ Rejected(rt')
            /\ rt'.promise.value.message = ExpectedReadMessage
            /\ rt'.destroyed = 1]_vars

\* the read timer fired while the body was being received
C4_Witness ==
    /\ env.response
    /\ rt.chunks # <<>>
    /\ rt.readTimeoutCbs = 0
    /\ Rejected(rt)
    /\ rt.promise.value.message = ExpectedReadMessage
    /\ rt.destroyed = 1
    /\ Called(rt, "socket.destroy")

\* C5: a timeout callback destroys the socket before it signals the fault: no
\* handler calls destroy after reject, and in no state has a timeout fault
\* been signalled while the socket was never destroyed.
C5_DestroyBeforeFault ==
    /\ TimeoutFault(rt) => rt.destroyed >= 1
    /\ \A i, j \in 1..Len(rt.calls) :
         (rt.calls[i] = "socket.destroy" /\ rt.calls[j] = "reject") => i < j

C5_Witness ==
    /\ TimeoutFault(rt)
    /\ Called(rt, "socket.destroy")
    /\ Called(rt, "reject")

\* C6: the connect event disarms the connection timer for good: once the
\* socket has connected, no step runs the connection-timeout callback.
C6_ConnectDisarms ==
    [][env.socket = "usable" => rt'.connTimeoutCbs = rt.connTimeoutCbs]_vars

\* C7: the connection timer is armed iff the assigned socket was connecting,
\* the read timer is armed exactly when the socket is usable (at assignment
\* for a reused socket, at connect for a new one, never while it is still
\* connecting), and each timer is armed at most once.
C7_TimersArmed ==
    /\ Len(rt.socketTimeouts) <= 1
    /\ Len(rt.requestTimeouts) <= 1
    /\ (rt.socketTimeouts # <<>>) <=> (env.socket # "none" /\ ~env.reused)
    /\ (rt.requestTimeouts # <<>>) <=> (env.socket = "usable")

\* the read timer was armed at the connect event of a new socket
C7_Witness ==
    /\ env.socket = "usable"
    /\ ~env.reused
    /\ Len(rt.requestTimeouts) = 1
    /\ Len(rt.socketTimeouts) = 1

\* C8: a fault, as delivered, carries with timing enabled the checkpoints
\* recorded before the failure and no later one (end is absent), and the
\* phases derived from those checkpoints (download and total absent); with
\* timing disabled it is the plain underlying fault.
C8_FaultTimings ==
    [][(~Settled(rt) /\ Rejected(rt'))
         => IF options.timing
            THEN /\ rt'.promise.value.kind = "ErrorWithTimings"
                 /\ Published(rt)'.timings = rt.timings
                 /\ Published(rt)'.timings.end = Undefined
                 /\ Published(rt)'.timingPhases = makeTimingPhases(rt.timings)
                 /\ Published(rt)'.timingPhases.download = Undefined
                 /\ Published(rt)'.timingPhases.total = Undefined
            ELSE rt'.promise.value \in
                     { Error(ExpectedConnectMessage), Error(ExpectedReadMessage),
                       Error(TransportErrorMessage),
                       Error(StreamErrorOf("response")), Error(StreamErrorOf("unzip")) }
       ]_vars

\* a fault delivered after the response checkpoint was recorded
C8_Witness ==
    /\ options.timing
    /\ Rejected(rt)
    /\ rt.promise.value.kind = "ErrorWithTimings"
    /\ IsNumber(rt.timings.response)
    /\ rt.timings.end = Undefined
    /\ IsNumber(rt.promise.value.timingPhases.firstByte)
    /\ rt.promise.value.timingPhases.total = Undefined

\* C9: with timing enabled and a reused socket, lookup = connect = socket in
\* the Timings, and every result published, success or fault, has dns = 0
\* and tcp = 0.
C9_ReusedSocket ==
    (options.timing /\ env.reused)
      => /\ IsNumber(rt.timings.socket)
         /\ rt.timings.lookup = rt.timings.socket
         /\ rt.timings.connect = rt.timings.socket
         /\ Settled(rt)
              => /\ Published(rt).timings.lookup = Published(rt).timings.socket
                 /\ Published(rt).timings.connect = Published(rt).timings.socket
                 /\ Published(rt).timingPhases.dns = Num(0)
                 /\ Published(rt).timingPhases.tcp = Num(0)

\* a fault on a reused socket, some time after the request began
C9_Witness ==
    /\ options.timing
    /\ env.reused
    /\ Rejected(rt)
    /\ rt.timings.socket = Num(1)
    /\ rt.promise.value.timingPhases.dns = Num(0)

\* the phases the Timings t stand for: a difference is present iff both of
\* its checkpoints are
Difference(a, b) ==
    IF a = Undefined \/ b = Undefined THEN Undefined ELSE Num(Val(a) - Val(b))

ExpectedPhases(t) ==
    [ wait      |-> t.socket,
      dns       |-> Difference(t.lookup, t.socket),
      tcp       |-> Difference(t.connect, t.lookup),
      firstByte |-> Difference(t.response, t.connect),
      download  |-> Difference(t.end, t.response),
      total     |-> t.end ]

Checkpoints == {Undefined} \cup { Num(n) : n \in 0..MaxTicks }

TimingsSet ==
    [ lookup : Checkpoints, socket : Checkpoints, connect : Checkpoints,
      response : Checkpoints, end : Checkpoints ]

PhasesOfAllTimings ==
    \A t \in TimingsSet : makeTimingPhases(t) = ExpectedPhases(t)

\* C10: makeTimingPhases gives wait = socket, dns = lookup - socket, tcp =
\* connect - lookup, firstByte = response - connect, download = end -
\* response, total = end, each present iff its checkpoints are; and the
\* phases published with a result are those of the Timings published with it.
C10_PhasesDerived ==
    /\ []PhasesOfAllTimings
    /\ [][(~Settled(rt) /\ Settled(rt') /\ options.timing)
            => Published(rt)'.timingPhases = ExpectedPhases(Published(rt)'.timings)]_vars

\* a success on a new connection with every phase present and dns not zero
C10_Witness ==
    /\ Fulfilled(rt)
    /\ rt.promise.value.timed
    /\ ~env.reused
    /\ rt.promise.value.timingPhases.dns = Num(1)
    /\ IsNumber(rt.promise.value.timingPhases.tcp)
    /\ IsNumber(rt.promise.value.timingPhases.download)

\* a checkpoint recorded earlier is not later than one recorded after it
NotAfter(a, b) == (IsNumber(a) /\ IsNumber(b)) => Val(a) <= Val(b)

CheckpointsOrdered(t) ==
    /\ NotAfter(t.socket, t.lookup)
    /\ NotAfter(t.socket, t.connect)
    /\ NotAfter(t.socket, t.response)
    /\ NotAfter(t.socket, t.end)
    /\ NotAfter(t.lookup, t.connect)
    /\ NotAfter(t.lookup, t.response)
    /\ NotAfter(t.lookup, t.end)
    /\ NotAfter(t.connect, t.response)
    /\ NotAfter(t.connect, t.end)
    /\ NotAfter(t.response, t.end)

NoNegativePhase(p) ==
    \A f \in {"dns", "tcp", "firstByte", "download"} :
        IsNumber(p[f]) => Val(p[f]) >= 0

C12_BodyDecoded ==
    Fulfilled(rt)
      => /\ env.payload = <<>>
         /\ Len(env.emitted) = Len(env.body)
         /\ rt.promise.value.body = Utf8ToString(Flatten(env.emitted))
         /\ env.emitted = << <<209>>, <<143, 102>> >>
              => rt.promise.value.body = <<1103, 102>>

\* a success whose body has a code point that arrived split over two chunks
C12_Witness ==
    /\ Fulfilled(rt)
    /\ env.emitted = << <<209>>, <<143, 102>> >>
    /\ rt.promise.value.body = <<1103, 102>>

\* no success is delivered for an execution one of whose streams signalled an
\* error
NoSuccessAfterStreamError == env.streamErrors # {} => ~Fulfilled(rt)

\* C13, as stated: whenever the response stream or the decoder attached to it
\* signals an error after the response event and before end-of-stream, the
\* request is failed with that error's message, and no success is delivered
\* for that execution.
C13_StreamErrorCarried ==
    /\ []NoSuccessAfterStreamError
    /\ [][\A source \in env'.streamErrors \ env.streamErrors :
            /\ Rejected(rt')
            /\ rt'.promise.value.message = Signalled(source)]_vars

\* C13, amended: when the response stream or the decoder attached to it
\* signals an error after the response event and before end-of-stream while
\* the execution has not yet resolved, the request is failed with that
\* error's message; an error signalled after a failure leaves that failure in
\* place; and in either case no success is delivered for that execution.
C13_StreamErrorFails ==
    /\ []NoSuccessAfterStreamError
    /\ [][\A source \in env'.streamErrors \ env.streamErrors :
            IF Settled(rt)
            THEN Rejected(rt) /\ rt'.promise = rt.promise
            ELSE /\ Rejected(rt')
                 /\ rt'.promise.value.message = Signalled(source)]_vars

\* the response failed after a part of the body had arrived
C13_Witness ==
    /\ Rejected(rt)
    /\ rt.promise.value.message = StreamErrorOf("response")
    /\ rt.chunks # <<>>
    /\ env.payload # <<>>

\* the bytes of "fo" and the response that carries them compressed
PlainFo == <<102, 111>>
CompressedFo == << <<31, 139, 102>>, <<111>> >>

\* C14: under content-encoding gzip or deflate the body that is aggregated is
\* the decoder's output: a success has the plaintext of a validly compressed
\* payload as its body, with the status code and the headers of the response,
\* and a payload that is not validly compressed never gives a success, its
\* decoder error fails the request; under any other or no content-encoding
\* the body is the raw stream, unmodified.
C14_Decompression ==
    /\ "unzip" \in env.streamErrors => Rejected(rt)
    /\ Fulfilled(rt)
         => /\ rt.promise.value.statusCode = Val(rt.response.statusCode)
            /\ rt.promise.value.headers = rt.response.encoding
            /\ IF rt.response.encoding \in {"gzip", "deflate"}
               THEN /\ env.body = CompressedFo
                    /\ rt.promise.value.body = PlainFo
               ELSE rt.promise.value.body = Utf8ToString(Flatten(env.body))

\* a success under content-encoding gzip
C14_Witness ==
    /\ Fulfilled(rt)
    /\ rt.response.encoding = "gzip"
    /\ env.body = CompressedFo
    /\ rt.promise.value.body = PlainFo
    /\ rt.promise.value.statusCode = 200

\* the execution has begun and has not resolved
NonTerminal == rt.started /\ ~Settled(rt)

\* C15: a failure is reachable from every non-terminal state: in each of
\* them the transport may emit its error (before a socket is assigned, while
\* connecting, while awaiting the response, while receiving the body), and a
\* transport error emitted before resolution fails the request with that
\* error.
C15_TransportErrorFails ==
    /\ [](NonTerminal => ENABLED TransportError)
    /\ [][(NonTerminal /\ ~env.error /\ env'.error)
            => /\ Rejected(rt')
               /\ rt'.promise.value.message = TransportErrorMessage]_vars

\* the transport failed before it assigned a socket
C15_Witness ==
    /\ env.socket = "none"
    /\ env.error
    /\ Rejected(rt)
    /\ rt.promise.value.message = TransportErrorMessage

\* C16: every call of request() finalizes the transport request exactly
\* once, with or without a body payload; a payload that is present is written
\* exactly once, before the finalization; without a payload nothing is
\* written.
C16_FinalizedOnce ==
    /\ rt.started
         => /\ rt.ended = 1
            /\ rt.written = IF options.body # "" THEN <<options.body>> ELSE <<>>
    /\ \A i, j \in 1..Len(rt.calls) :
         (rt.calls[i] = "requestObject.write" /\ rt.calls[j] = "requestObject.end")
            => i < j

\* request() has just written the payload and finalized the request
C16_Witness ==
    /\ rt.started
    /\ options.body = "foobar"
    /\ rt.written = <<"foobar">>
    /\ rt.ended = 1
    /\ Called(rt, "requestObject.write")
    /\ Called(rt, "requestObject.end")

\* the serialized form of the query objects of Queries
Serialized(query) ==
    CASE query = <<>> -> <<>>
      [] query = << <<"a", 1>> >> -> <<"a", "=", "1">>
      [] query = << <<"foo", 7>>, <<"buz", 42>> >>
           -> <<"foo", "=", "7", "&", "buz", "=", "42">>

C18_EventuallyResolves == rt.started ~> Settled(rt)

\* an execution resolved by its read timer while it awaited the response
C18_Witness ==
    /\ env.socket = "usable"
    /\ ~env.response
    /\ ~env.error
    /\ Rejected(rt)
    /\ rt.promise.value.message = ExpectedReadMessage

\* the transport itself has closed the socket: the request failed, or the
\* response was aborted
ClosedByTransport == env.error \/ "response" \in env.streamErrors

\* C19: in every terminal state, success or failure, the resources of the
\* execution have been released: its socket has been destroyed (or, after a
\* transport fault, closed by the transport) and neither the connection timer
\* nor the read timer can still run its callback.
C19_ResourcesReleased ==
    (Settled(rt) /\ env.socket # "none" /\ ~ClosedByTransport)
      => /\ rt.destroyed >= 1
         /\ ~ENABLED ConnectionTimeout
         /\ ~ENABLED ReadTimeout

AllCheckpoints(t) ==
    \A c \in {"socket", "lookup", "connect", "response", "end"} : IsNumber(t[c])

AllPhases(p) ==
    \A f \in {"wait", "dns", "tcp", "firstByte", "download", "total"} :
        IsNumber(p[f])

\* C20: with timing enabled, a success published after the socket checkpoint
\* was recorded has all five checkpoints and all six phases defined: lookup
\* and connect are backfilled from socket at response time when they were
\* not observed, end is marked before the phases are derived, and the phases
\* are those of the checkpoints published with them.
C20_SuccessFullyTimed ==
    (options.timing /\ Fulfilled(rt) /\ IsNumber(rt.timings.socket))
      => /\ AllCheckpoints(Published(rt).timings)
         /\ AllPhases(Published(rt).timingPhases)
         /\ Published(rt).timingPhases = ExpectedPhases(Published(rt).timings)

\* a success on a new connection whose socket never emitted lookup
C20_Witness ==
    /\ options.timing
    /\ Fulfilled(rt)
    /\ ~env.reused
    /\ rt.lookupOnce
    /\ AllPhases(rt.promise.value.timingPhases)
    /\ rt.promise.value.timingPhases.download = Num(1)

\* C21: across one execution a ServiceClientResponse is constructed at most
\* once and only at a success, an ErrorWithTimings at most once and only at a
\* failure, and never both: a failure trigger that arrives after the first
\* resolution, and an end-of-stream that arrives after a failure, construct
\* nothing.
C21_ConstructedOnce ==
    /\ rt.responses <= 1
    /\ rt.errors <= 1
    /\ ~(rt.responses >= 1 /\ rt.errors >= 1)
    /\ rt.responses >= 1 => Fulfilled(rt)
    /\ rt.errors >= 1 => Rejected(rt)

\* C22: the aggregator holds no data once it is finished: right after the
\* end-of-stream that produced the body, and right after a stream error was
\* forwarded, the chunk buffer is empty and the byte-length counter is zero.
C22_BufferReleased ==
    [][((~env.ended /\ env'.ended) \/ env'.streamErrors # env.streamErrors)
         => /\ rt'.chunks = <<>>
            /\ rt'.bufferLength = 0]_vars

\* C23: in the revision with the dropRequestAfter timer, a request that has
\* resolved is not aborted by the timer: its firing aborts the request and
\* signals 'request timeout' only if the execution has not resolved yet, and
\* then the abort precedes the fault; if the execution has already succeeded
\* or already failed, the firing neither calls abort nor signals a fault.
C23_NoAbortAfterResolution ==
    [][rt'.dropTimers < rt.dropTimers
         => IF Settled(rt)
            THEN /\ rt'.aborted = rt.aborted
                 /\ ~Called(rt', "requestObject.abort")
                 /\ ~Called(rt', "reject")
            ELSE /\ rt'.aborted = rt.aborted + 1
                 /\ Rejected(rt')
                 /\ rt'.promise.value.message = <<"request timeout">>
                 /\ \A i, j \in 1..Len(rt'.calls) :
                      (rt'.calls[i] = "requestObject.abort"
                         /\ rt'.calls[j] = "reject") => i < j]_vars

====
